---- MODULE Spec2Model ----
(***************************************************************************)
(* Stack stamping (src/stack_stamp/ss.cpp, ss.hpp): the pass XORs the      *)
(* saved return address with a stamp value at function entry and before    *)
(* every return / function-leaving branch, and prepends a compensating     *)
(* operation to the unwind (EH) program of every instruction.               *)
(*                                                                         *)
(* An Instruction_t* is an index into the sequence insns; a Function_t* an *)
(* index into funcs; an EhProgram_t* an index into pgms.  A std::set of    *)
(* pointers is iterated in increasing index order.                         *)
(***************************************************************************)
EXTENDS Integers, Sequences, FiniteSets, TLC

VARIABLES
    funcs,                       \* Function_t objects: [name, entry]
    insns,                       \* Instruction_t objects of the FileIR
    ir0,                         \* the FileIR's instructions as execute() found them
    pgms,                        \* EhProgram_t objects ever allocated
    eh_registry,                 \* FileIR_t::getAllEhPrograms()
    all_eh_pgms,                 \* the cache: set of [key, pgm] entries of the std::map
    m_stamp_value,               \* StampValue_t (unsigned int): its four bytes
    arch_bits,                   \* getFileIR()->getArchitectureBitWidth()
    m_instructions_added,
    m_functions_transformed,
    m_functions_not_transformed,
    todo,                        \* the part of sorted_funcs execute() has not visited
    phase,                       \* "execute" | "eh" | "done"
    cur,                         \* the function whose eh_update is running
    eh_pos,                      \* eh_update's loop: the last instruction visited
    outcome,                     \* per function: "pending" | "skipped" | "transformed"
    stamp_log,                   \* calls of stamp(f,i): <<f, i, kind of i at the call>>
    eh_before,                   \* per instruction: its program when eh_update(f) began
    pc,                          \* the rewritten program running: instruction, or NULL
    parity,                      \* stamps executed by the running frame, mod 2
    ss_max_do_transform,         \* getenv("SS_MAX_DO_TRANSFORM"): <<>> is the null pointer
    success,                     \* what execute() returned: <<>> until it returns
    exit_code,                   \* what executeStep() returned: <<>> until it returns
    ret_addr,                    \* a frame's return address as its caller pushed it
    slot,                        \* the stack slot that holds the frame's return address
    unwound                      \* the return address the unwinder computed, or <<>>

vars == <<funcs, insns, ir0, pgms, eh_registry, all_eh_pgms, m_stamp_value, arch_bits,
          m_instructions_added, m_functions_transformed, m_functions_not_transformed,
          todo, phase, cur, eh_pos, outcome, stamp_log, eh_before, pc, parity,
          ss_max_do_transform, success, exit_code, ret_addr, slot, unwound>>

NULL == 0

\* What *end(relocs) may read when it is not the null pointer.
GARBAGE == -1

\* can_stamp: functions of this many instructions or fewer are stubs.
StubSize == 3

\* Instructions of the function under test in the control-flow specification.
NumF == 4

fix_call_fallthrough_string == "fix_call_fallthrough"

(***************************************************************************)
(* Generic helpers                                                         *)
(***************************************************************************)
Max(S) == CHOOSE x \in S : \A y \in S : y <= x

Min(S) == CHOOSE x \in S : \A y \in S : x <= y

RECURSIVE SortedSeq(_)
\* The elements of a finite set of integers in increasing order (std::set iteration).
SortedSeq(S) == IF S = {} THEN <<>> ELSE <<Min(S)>> \o SortedSeq(S \ {Min(S)})

(***************************************************************************)
(* The IR as the pass reads it                                             *)
(***************************************************************************)
\* f->getInstructions() in the instruction table ins
getInstructions(ins, f) == {i \in 1..Len(ins) : ins[i].func = f}

\* DecodedInstruction_t predicates; the inserted xor decodes as none of them.
isReturn(insn) == insn.kind = "ret"

isCall(insn) == insn.kind = "call"

isUnconditionalBranch(insn) == insn.kind = "jmp"

\* The instruction insertAssemblyBefore assembles: xor dword [sp], stamp
IsStamp(insn) == insn.kind = "xor"

\* findRelocation: find_if, then (find_it==end(relocs)) ? *find_it : NULL.
\* With no relocation of the type the past-the-end iterator is dereferenced:
\* the value read is insn.endDeref (NULL or GARBAGE).  With one, NULL.
findRelocation(insn, type) ==
    IF \A r \in insn.relocs : r # type THEN insn.endDeref ELSE NULL

\* leaver != icfs->end(): some indirect target is in another function
might_leave(ins, f, insn) == \E t \in insn.ibt : ins[t].func # f

\* stayer != icfs->end(): some indirect target is in f
might_stay(ins, f, insn) == \E t \in insn.ibt : ins[t].func = f

\* The body of can_stamp's loop for one instruction:
\* "ok", "reject" (return false), or the assertion that fails.
InsnVerdict(ins, f, i) ==
    LET insn == ins[i]
        reloc == findRelocation(insn, fix_call_fallthrough_string)
        definitely_stays == ~might_leave(ins, f, insn)
        definitely_leaves == ~might_stay(ins, f, insn)
    IN  IF isReturn(insn) THEN "ok"
        ELSE IF isCall(insn) \/ reloc # NULL THEN "ok"
        ELSE IF insn.target # NULL /\ ins[insn.target].func # f
             THEN (IF insn.fallthrough # NULL THEN "reject" ELSE "ok")
        ELSE IF isUnconditionalBranch(insn) /\ insn.hasIbt
             THEN (IF insn.fallthrough # NULL THEN "assert_fallthrough"
                   ELSE IF insn.ibt = {} THEN "assert_no_targets"
                   ELSE IF definitely_leaves \/ definitely_stays THEN "ok"
                   ELSE IF might_leave(ins, f, insn) \/ might_stay(ins, f, insn)
                        THEN "reject"
                   ELSE "assert_0")
        ELSE "ok"

\* CanStampVerdict with the stub test off by one (size() < 3).
CanStampVerdict_StubOffByOne(fs, ins, f) ==
    LET bad == {i \in getInstructions(ins, f) : InsnVerdict(ins, f, i) # "ok"}
    IN  IF fs[f].entry = NULL THEN "false"
        ELSE IF fs[f].name = "_start" THEN "false"
        ELSE IF Cardinality(getInstructions(ins, f)) < StubSize THEN "false"
        ELSE IF bad = {} THEN "true"
        ELSE IF InsnVerdict(ins, f, Min(bad)) = "reject" THEN "false"
        ELSE InsnVerdict(ins, f, Min(bad))

\* can_stamp's outcome: "true", "false", or the assertion that stops the process.
\* The loop stops at the first instruction (in set order) that is not "ok".
CanStampVerdict(fs, ins, f) ==
    LET bad == {i \in getInstructions(ins, f) : InsnVerdict(ins, f, i) # "ok"}
    IN  IF fs[f].entry = NULL THEN "false"
        ELSE IF fs[f].name = "_start" THEN "false"
        ELSE IF Cardinality(getInstructions(ins, f)) <= StubSize THEN "false"
        ELSE IF bad = {} THEN "true"
        ELSE IF InsnVerdict(ins, f, Min(bad)) = "reject" THEN "false"
        ELSE InsnVerdict(ins, f, Min(bad))

can_stamp(fs, ins, f) == CanStampVerdict(fs, ins, f) = "true"

(***************************************************************************)
(* Stamping one instruction and one function                               *)
(***************************************************************************)
\* insertAssemblyBefore(i, "xor dword [sp], stamp"): the old instruction is
\* copied to a new Instruction_t (the 'after'), and the old Instruction_t is
\* overwritten with the xor (the 'before'), which falls through to the copy.
insertAssemblyBefore(ins, i) ==
    LET next == Len(ins) + 1
    IN  [Append(ins, ins[i]) EXCEPT
            ![i] = [ins[i] EXCEPT !.kind = "xor", !.target = NULL,
                                  !.fallthrough = next, !.hasIbt = FALSE,
                                  !.ibt = {}, !.complete = FALSE,
                                  !.relocs = {}, !.endDeref = NULL]]

\* stamp_insn that forgets m_instructions_added++.
stamp_insn_NoCount(st, f, i) ==
    [ins   |-> insertAssemblyBefore(st.ins, i),
     added |-> st.added,
     slog  |-> Append(st.slog, <<f, i, st.ins[i].kind>>)]

\* The pass's mutable state while stamp(f) runs:
\* st = [ins, added, slog].  stamp(f,i) inserts and counts.
stamp_insn(st, f, i) ==
    [ins   |-> insertAssemblyBefore(st.ins, i),
     added |-> st.added + 1,
     slog  |-> Append(st.slog, <<f, i, st.ins[i].kind>>)]

\* The walk's decision for one instruction: does it call stamp(f,insn)?
WalkStamps(fs, ins, f, i) ==
    LET insn == ins[i]
        reloc == findRelocation(insn, fix_call_fallthrough_string)
        definitely_leaves == ~might_stay(ins, f, insn)
    IN  IF isReturn(insn) THEN TRUE
        ELSE IF isCall(insn) \/ reloc # NULL THEN FALSE
        ELSE IF insn.target # NULL /\ ins[insn.target].func # f THEN TRUE
        ELSE IF isUnconditionalBranch(insn) /\ insn.hasIbt
             THEN \/ i = fs[f].entry
                  \/ definitely_leaves
                  \/ (might_leave(ins, f, insn) /\ ~insn.complete)
        ELSE FALSE

\* The walk's assertions: assert(!insn->getFallthrough()) on a leaving direct
\* branch and on an indirect branch, assert(icfs->size() != 0).
WalkAsserts(ins, f, i) ==
    LET insn == ins[i]
        reloc == findRelocation(insn, fix_call_fallthrough_string)
    IN  /\ ~isReturn(insn)
        /\ ~(isCall(insn) \/ reloc # NULL)
        /\ IF insn.target # NULL /\ ins[insn.target].func # f
           THEN insn.fallthrough # NULL
           ELSE /\ isUnconditionalBranch(insn) /\ insn.hasIbt
                /\ (insn.fallthrough # NULL \/ insn.ibt = {})

RECURSIVE StampWalk(_, _, _, _)
\* for(auto insn : old_f_insns) { ... }: old is the rest of the snapshot.
StampWalk(st, fs, f, old) ==
    IF old = <<>> THEN st
    ELSE LET i == Head(old)
             st1 == IF WalkStamps(fs, st.ins, f, i) THEN stamp_insn(st, f, i) ELSE st
         IN  StampWalk(st1, fs, f, Tail(old))

\* The entry-skip loop: every snapshot instruction whose target is the entry
\* and that is not a call is retargeted to the entry's fallthrough.
EntrySkip(ins, entry, old) ==
    [i \in 1..Len(ins) |->
        IF i \in old /\ ins[i].target = entry /\ ~isCall(ins[i])
        THEN [ins[i] EXCEPT !.target = ins[entry].fallthrough]
        ELSE ins[i]]

\* StampBody that stamps the entry only if the walk has not (no second stamp).
StampBody_EntryOnce(st, fs, f) ==
    LET old == getInstructions(st.ins, f)
        walked == StampWalk(st, fs, f, SortedSeq(old))
        entered == IF IsStamp(walked.ins[fs[f].entry]) THEN walked
                   ELSE stamp_insn(walked, f, fs[f].entry)
    IN  [entered EXCEPT !.ins = EntrySkip(entered.ins, fs[f].entry, old)]

\* stamp(Function_t *) from the snapshot to the end of the entry-skip loop.
StampBody(st, fs, f) ==
    LET old == getInstructions(st.ins, f)
        walked == StampWalk(st, fs, f, SortedSeq(old))
        entered == stamp_insn(walked, f, fs[f].entry)
    IN  [entered EXCEPT !.ins = EntrySkip(entered.ins, fs[f].entry, old)]

(***************************************************************************)
(* Unwind (EH) programs                                                    *)
(***************************************************************************)
\* The n bytes of the unsigned v, least significant first (the object
\* representation of an unsigned integer on the little-endian host).
RECURSIVE Bytes(_, _)
Bytes(v, n) == IF n = 0 THEN <<>> ELSE <<v % 256>> \o Bytes(v \div 256, n - 1)

\* dwarf_instruction with the stamp value sign-extended to 64 bits.
dwarf_instruction_SignExt(stamp_value, bits) ==
    LET dwarf_instruction_prefix ==
            IF bits = 64 THEN <<22, 16, 13, 56, 28, 6>> ELSE <<22, 8, 9, 52, 28, 6>>
        byte_width == bits \div 8
        ext == IF stamp_value[4] >= 128 THEN 255 ELSE 0
        dwarf_addr_insn ==
            <<3>> \o SubSeq(stamp_value \o <<ext, ext, ext, ext>>, 1, byte_width)
        dwarf_instruction_suffix == <<39>>
    IN  dwarf_instruction_prefix \o dwarf_addr_insn \o dwarf_instruction_suffix

\* dwarf_instruction: DW_CFA_val_expression of the return-address register,
\* prefix + DW_OP_addr stamp + DW_OP_xor, as a string of bytes.  The stamp
\* value (four bytes) is widened to uint64_t, and the first byte_width bytes
\* of that object are copied: string(reinterpret_cast<const char *>(&stamp_value), byte_width)
dwarf_instruction(stamp_value, bits) ==
    LET dwarf_instruction_prefix ==
            IF bits = 64 THEN <<22, 16, 13, 56, 28, 6>> ELSE <<22, 8, 9, 52, 28, 6>>
        byte_width == bits \div 8
        dwarf_instruction_stamp_value ==
            SubSeq(stamp_value \o <<0, 0, 0, 0>>, 1, byte_width)
        dwarf_addr_insn == <<3>> \o dwarf_instruction_stamp_value
        dwarf_instruction_suffix == <<39>>
    IN  dwarf_instruction_prefix \o dwarf_addr_insn \o dwarf_instruction_suffix

\* EhProgramPlaceHolder_t(orig): the seven fields of the program, copied.
EhProgramPlaceHolder_t(orig) ==
    [caf |-> orig.caf, daf |-> orig.daf, rr |-> orig.rr, ptrsize |-> orig.ptrsize,
     cie_program |-> orig.cie_program, fde_program |-> orig.fde_program,
     relocs |-> orig.relocs]

RECURSIVE StringLess(_, _)
\* std::string operator< : lexicographic on the bytes.
StringLess(a, b) ==
    IF b = <<>> THEN FALSE
    ELSE IF a = <<>> THEN TRUE
    ELSE IF a[1] < b[1] THEN TRUE
    ELSE IF b[1] < a[1] THEN FALSE
    ELSE StringLess(Tail(a), Tail(b))

RECURSIVE ListingLess(_, _)
\* EhProgramListing_t (vector<string>) operator< : lexicographic on the strings.
ListingLess(a, b) ==
    IF b = <<>> THEN FALSE
    ELSE IF a = <<>> THEN TRUE
    ELSE IF StringLess(a[1], b[1]) THEN TRUE
    ELSE IF StringLess(b[1], a[1]) THEN FALSE
    ELSE ListingLess(Tail(a), Tail(b))

\* RelocationSet_t (set of Relocation_t pointers) operator< : lexicographic
\* on the pointers in increasing order.  A relocation of an EH program is an
\* integer (its address).
RelocSetLess(a, b) == StringLess(SortedSeq(a), SortedSeq(b))

\* operator< that leaves fde_program out of the tie.
PlaceHolderLess_NoFde(a, b) ==
    IF a.caf # b.caf THEN a.caf < b.caf
    ELSE IF a.daf # b.daf THEN a.daf < b.daf
    ELSE IF a.rr # b.rr THEN a.rr < b.rr
    ELSE IF a.ptrsize # b.ptrsize THEN a.ptrsize < b.ptrsize
    ELSE IF ListingLess(a.cie_program, b.cie_program) THEN TRUE
    ELSE IF ListingLess(b.cie_program, a.cie_program) THEN FALSE
    ELSE RelocSetLess(a.relocs, b.relocs)

\* Stamper::operator< : tie(caf, daf, rr, ptrsize, cie, fde, relocs) < tie(...)
PlaceHolderLess(a, b) ==
    IF a.caf # b.caf THEN a.caf < b.caf
    ELSE IF a.daf # b.daf THEN a.daf < b.daf
    ELSE IF a.rr # b.rr THEN a.rr < b.rr
    ELSE IF a.ptrsize # b.ptrsize THEN a.ptrsize < b.ptrsize
    ELSE IF ListingLess(a.cie_program, b.cie_program) THEN TRUE
    ELSE IF ListingLess(b.cie_program, a.cie_program) THEN FALSE
    ELSE IF ListingLess(a.fde_program, b.fde_program) THEN TRUE
    ELSE IF ListingLess(b.fde_program, a.fde_program) THEN FALSE
    ELSE RelocSetLess(a.relocs, b.relocs)

\* find that never finds.
CacheFind_Never(cache, nep) == {}

\* all_eh_pgms.find(nep): the entries whose key is equivalent to nep under
\* operator< (neither is less than the other); empty when find returns end().
CacheFind(cache, nep) ==
    {e \in cache : ~PlaceHolderLess(e.key, nep) /\ ~PlaceHolderLess(nep, e.key)}

\* eh_update that forgets to record the new program in the cache.
CacheInsert_Forgets(cache, nep, tmp_pgm) == cache

\* all_eh_pgms[nep]=tmp_pgm: the entry of an equivalent key, if any, is
\* assigned; otherwise a new entry is made.
CacheInsert(cache, nep, tmp_pgm) ==
    (cache \ CacheFind(cache, nep)) \cup {[key |-> nep, pgm |-> tmp_pgm]}

\* nep: the placeholder of the old program with dwarf_instruction inserted at
\* the beginning of its FDE program.
NewPlaceHolder(eh_pgm, stamp_value, bits) ==
    LET nep == EhProgramPlaceHolder_t(eh_pgm)
    IN  [nep EXCEPT !.fde_program = <<dwarf_instruction(stamp_value, bits)>> \o @]

(***************************************************************************)
(* execute(): the functions in sorted order                                *)
(***************************************************************************)
\* The function names of the model in the order of std::string operator<
\* ('_' sorts before the lower-case letters).
NameOrder == <<"_start", "f", "g", "h">>

NameRank(name) == CHOOSE k \in 1..Len(NameOrder) : NameOrder[k] = name

\* nameSorter: tie(lhs name, lhs) < tie(rhs name, rhs)
nameSorter(fs, lhs, rhs) ==
    \/ NameRank(fs[lhs].name) < NameRank(fs[rhs].name)
    \/ (fs[lhs].name = fs[rhs].name /\ lhs < rhs)

RECURSIVE SortFuncs(_, _)
SortFuncs(fs, S) ==
    IF S = {} THEN <<>>
    ELSE LET first == CHOOSE a \in S : \A b \in S \ {a} : nameSorter(fs, a, b)
         IN  <<first>> \o SortFuncs(fs, S \ {first})

\* sorted_funcs = set<Function_t*, nameSorter>(ALLOF(getFunctions()))
sorted_funcs(fs) == SortFuncs(fs, 1..Len(fs))

\* The characters of the decimal digits, and atoi: an optional minus sign and
\* the leading digits of the string; 0 when there are none.
Digits == <<"0", "1", "2", "3", "4", "5", "6", "7", "8", "9">>

isdigit(c) == \E k \in 1..Len(Digits) : Digits[k] = c

RECURSIVE atoi_digits(_, _)
atoi_digits(str, acc) ==
    IF str = <<>> \/ ~isdigit(Head(str)) THEN acc
    ELSE atoi_digits(Tail(str),
                     acc * 10 + (CHOOSE k \in 1..Len(Digits) : Digits[k] = Head(str)) - 1)

atoi(str) ==
    IF str # <<>> /\ Head(str) = "-" THEN 0 - atoi_digits(Tail(str), 0)
    ELSE atoi_digits(str, 0)

\* execute()'s test at the top of its loop body:
\* ss_max_do_transform && m_functions_transformed > atoi(ss_max_do_transform)
CapReached(env, transformed) == env # <<>> /\ transformed > atoi(env)

\* The loop body when the test is true: continue.
ExecuteContinue ==
    /\ phase = "execute" /\ todo # <<>>
    /\ CapReached(ss_max_do_transform, m_functions_transformed)
    /\ todo' = Tail(todo)
    /\ UNCHANGED <<funcs, insns, ir0, pgms, eh_registry, all_eh_pgms, m_stamp_value,
                   arch_bits, m_instructions_added, m_functions_transformed,
                   m_functions_not_transformed, phase, cur, eh_pos, outcome, stamp_log,
                   eh_before, pc, parity>>
    /\ UNCHANGED <<ss_max_do_transform, success, exit_code, ret_addr, slot, unwound>>

\* stamp(f) when can_stamp(f) is false: log "Skipping", count, return.
ExecuteSkip ==
    /\ phase = "execute" /\ todo # <<>>
    /\ ~CapReached(ss_max_do_transform, m_functions_transformed)
    /\ LET f == Head(todo)
       IN  /\ CanStampVerdict(funcs, insns, f) = "false"
           /\ m_functions_not_transformed' = m_functions_not_transformed + 1
           /\ outcome' = [outcome EXCEPT ![f] = "skipped"]
           /\ todo' = Tail(todo)
    /\ UNCHANGED <<funcs, insns, ir0, pgms, eh_registry, all_eh_pgms, m_stamp_value,
                   arch_bits, m_instructions_added, m_functions_transformed, phase, cur,
                   eh_pos, stamp_log, eh_before, pc, parity>>
    /\ UNCHANGED <<ss_max_do_transform, success, exit_code, ret_addr, slot, unwound>>

\* stamp(f) when can_stamp(f) is true: log "Doing", count, the walk, the
\* entry's stamp and the entry-skip loop; eh_update(f) follows.
ExecuteStamp ==
    /\ phase = "execute" /\ todo # <<>>
    /\ ~CapReached(ss_max_do_transform, m_functions_transformed)
    /\ LET f == Head(todo)
           st == StampBody([ins |-> insns, added |-> m_instructions_added,
                            slog |-> stamp_log], funcs, f)
       IN  /\ can_stamp(funcs, insns, f)
           /\ \A i \in getInstructions(insns, f) : ~WalkAsserts(insns, f, i)
           /\ m_functions_transformed' = m_functions_transformed + 1
           /\ outcome' = [outcome EXCEPT ![f] = "transformed"]
           /\ insns' = st.ins
           /\ m_instructions_added' = st.added
           /\ stamp_log' = st.slog
           /\ eh_before' = [i \in 1..Len(st.ins) |->
                                IF st.ins[i].func = f THEN st.ins[i].eh ELSE eh_before[i]]
           /\ cur' = f
           /\ todo' = Tail(todo)
    /\ phase' = "eh"
    /\ eh_pos' = 0
    /\ UNCHANGED <<funcs, ir0, pgms, eh_registry, all_eh_pgms, m_stamp_value, arch_bits,
                   m_functions_not_transformed, pc, parity>>
    /\ UNCHANGED <<ss_max_do_transform, success, exit_code, ret_addr, slot, unwound>>

\* eh_update's loop: the instructions of f it has yet to visit that have a program
EhPending == {i \in getInstructions(insns, cur) : i > eh_pos /\ insns[i].eh # NULL}

\* One iteration of eh_update's loop on an instruction that has an unwind
\* program (the iterations on instructions without one only continue).
EhUpdate ==
    /\ phase = "eh" /\ EhPending # {}
    /\ LET i == Min(EhPending)
           nep == NewPlaceHolder(pgms[insns[i].eh], m_stamp_value, arch_bits)
           reuse_it == CacheFind(all_eh_pgms, nep)
           tmp_pgm == Len(pgms) + 1
       IN  /\ eh_pos' = i
           /\ IF reuse_it = {}
              THEN \* addEhProgram(insn, ...), setRelocations, all_eh_pgms[nep]=tmp_pgm
                   /\ pgms' = Append(pgms, nep)
                   /\ eh_registry' = eh_registry \cup {tmp_pgm}
                   /\ insns' = [insns EXCEPT ![i].eh = tmp_pgm]
                   /\ all_eh_pgms' = CacheInsert(all_eh_pgms, nep, tmp_pgm)
              ELSE \* insn->setEhProgram(reuse_it->second)
                   /\ insns' = [insns EXCEPT ![i].eh = (CHOOSE e \in reuse_it : TRUE).pgm]
                   /\ UNCHANGED <<pgms, eh_registry, all_eh_pgms>>
    /\ UNCHANGED <<funcs, ir0, m_stamp_value, arch_bits, m_instructions_added,
                   m_functions_transformed, m_functions_not_transformed, todo, phase, cur,
                   outcome, stamp_log, eh_before, pc, parity>>
    /\ UNCHANGED <<ss_max_do_transform, success, exit_code, ret_addr, slot, unwound>>

\* eh_update's loop ends; stamp(f) returns to execute()'s loop.
EhReturn ==
    /\ phase = "eh" /\ EhPending = {}
    /\ phase' = "execute"
    /\ cur' = NULL
    /\ eh_pos' = 0
    /\ UNCHANGED <<funcs, insns, ir0, pgms, eh_registry, all_eh_pgms, m_stamp_value,
                   arch_bits, m_instructions_added, m_functions_transformed,
                   m_functions_not_transformed, todo, outcome, stamp_log, eh_before, pc, parity>>
    /\ UNCHANGED <<ss_max_do_transform, success, exit_code, ret_addr, slot, unwound>>

\* cleanup_eh_pgms that leaves the registry as it is.
cleanup_eh_pgms_NoPrune(ins) == eh_registry

\* cleanup_eh_pgms(): the registry becomes the set of programs the
\* instructions reference; execute() then returns.
cleanup_eh_pgms(ins) == {ins[i].eh : i \in {j \in 1..Len(ins) : ins[j].eh # NULL}}

\* execute() that reports success whatever it transformed.
execute_returns_Always(transformed) == transformed >= 0

\* execute(): return m_functions_transformed > 0
execute_returns(transformed) == transformed > 0

\* executeStep(): return success ? 0 : 2
executeStep(ok) == IF ok THEN 0 ELSE 2

\* The end of execute()'s loop: cleanup_eh_pgms(), the statistics, the return
\* of execute() and that of executeStep().
Finish ==
    /\ phase = "execute" /\ todo = <<>>
    /\ eh_registry' = cleanup_eh_pgms(insns)
    /\ phase' = "done"
    /\ success' = <<execute_returns(m_functions_transformed)>>
    /\ exit_code' = <<executeStep(execute_returns(m_functions_transformed))>>
    /\ UNCHANGED <<funcs, insns, ir0, pgms, all_eh_pgms, m_stamp_value, arch_bits,
                   m_instructions_added, m_functions_transformed,
                   m_functions_not_transformed, todo, cur, eh_pos, outcome, stamp_log, eh_before,
                   pc, parity>>
    /\ UNCHANGED <<ss_max_do_transform, ret_addr, slot, unwound>>

\* An exception leaves the try block of executeStep() (getMainFileIR() or a
\* call of the pass into the IR throws): the catch clauses log and return 2.
ExecuteStepCatch ==
    /\ phase \in {"execute", "eh"}
    /\ phase' = "thrown"
    /\ exit_code' = <<2>>
    /\ UNCHANGED <<funcs, insns, ir0, pgms, eh_registry, all_eh_pgms, m_stamp_value,
                   arch_bits, m_instructions_added, m_functions_transformed,
                   m_functions_not_transformed, todo, cur, eh_pos, outcome, stamp_log,
                   eh_before, pc, parity>>
    /\ UNCHANGED <<ss_max_do_transform, success, ret_addr, slot, unwound>>

(***************************************************************************)
(* The rewritten code running: one frame of a transformed function, from   *)
(* its entry to a return or a branch out of the function.  parity counts   *)
(* the xor instructions the frame has executed before pc, modulo 2.        *)
(***************************************************************************)
\* A call, or the jump of a fixed call (push + jump): control comes back to
\* the fallthrough with the frame's saved return address untouched.
CallLike(insn) == isCall(insn) \/ fix_call_fallthrough_string \in insn.relocs

\* Where a branch may go: its target, its fallthrough, its indirect targets.
Dests(insn) ==
    ({insn.target, insn.fallthrough} \cup (IF insn.hasIbt THEN insn.ibt ELSE {})) \ {NULL}

\* The instruction uses the frame's return address (a return) or hands the
\* frame to another function (a tail call, an indirect branch out).
Leaves(ins, i) ==
    \/ isReturn(ins[i])
    \/ /\ ~IsStamp(ins[i]) /\ ~CallLike(ins[i])
       /\ \E t \in Dests(ins[i]) : ins[t].func # ins[i].func

\* The instructions of the same function that may execute next.
Succ(ins, i) ==
    IF isReturn(ins[i]) THEN {}
    ELSE IF IsStamp(ins[i]) \/ CallLike(ins[i]) THEN {ins[i].fallthrough} \ {NULL}
    ELSE {t \in Dests(ins[i]) : ins[t].func = ins[i].func}

\* A caller calls a transformed function: the frame starts at its entry.
ExecEnter ==
    /\ phase = "done" /\ pc = NULL
    /\ \E f \in 1..Len(funcs) :
          /\ outcome[f] = "transformed"
          /\ pc' = funcs[f].entry
    /\ parity' = 0
    /\ UNCHANGED <<funcs, insns, ir0, pgms, eh_registry, all_eh_pgms, m_stamp_value,
                   arch_bits, m_instructions_added, m_functions_transformed,
                   m_functions_not_transformed, todo, phase, cur, eh_pos, outcome,
                   stamp_log, eh_before>>
    /\ UNCHANGED <<ss_max_do_transform, success, exit_code, ret_addr, slot, unwound>>

\* The frame executes the instruction at pc and stays in the function.
ExecStep ==
    /\ pc # NULL
    /\ \E n \in Succ(insns, pc) : pc' = n
    /\ parity' = IF IsStamp(insns[pc]) THEN 1 - parity ELSE parity
    /\ UNCHANGED <<funcs, insns, ir0, pgms, eh_registry, all_eh_pgms, m_stamp_value,
                   arch_bits, m_instructions_added, m_functions_transformed,
                   m_functions_not_transformed, todo, phase, cur, eh_pos, outcome,
                   stamp_log, eh_before>>
    /\ UNCHANGED <<ss_max_do_transform, success, exit_code, ret_addr, slot, unwound>>

\* The frame ends: the instruction at pc returns or branches out of the function.
ExecLeave ==
    /\ pc # NULL
    /\ Leaves(insns, pc)
    /\ pc' = NULL
    /\ parity' = 0
    /\ UNCHANGED <<funcs, insns, ir0, pgms, eh_registry, all_eh_pgms, m_stamp_value,
                   arch_bits, m_instructions_added, m_functions_transformed,
                   m_functions_not_transformed, todo, phase, cur, eh_pos, outcome,
                   stamp_log, eh_before>>
    /\ UNCHANGED <<ss_max_do_transform, success, exit_code, ret_addr, slot, unwound>>

(***************************************************************************)
(* Control-flow specification: one function F (instructions 1..NumF, entry *)
(* 1) of every shape below, and a stub G holding the instruction OUT that  *)
(* branches out of F go to.                                                *)
(***************************************************************************)
OUT == NumF + 1

\* The instruction after position p; the last one is followed by the entry.
Nxt(p) == IF p = NumF THEN 1 ELSE p + 1

\* An instruction of function 1.  rs is the state of its relocation set:
\* "fix" holds a fix_call_fallthrough relocation, "garbage" holds none and
\* reading past its end gives GARBAGE, "none" holds none and gives NULL.
MkInsn(kind, target, fallthrough, hasIbt, ibt, complete, rs) ==
    [func |-> 1, kind |-> kind, target |-> target, fallthrough |-> fallthrough,
     hasIbt |-> hasIbt, ibt |-> ibt, complete |-> complete,
     relocs |-> IF rs = "fix" THEN {fix_call_fallthrough_string} ELSE {},
     endDeref |-> IF rs = "garbage" THEN GARBAGE ELSE NULL,
     eh |-> NULL]

Ret == MkInsn("ret", NULL, NULL, FALSE, {}, FALSE, "none")

Plain(p) == MkInsn("other", NULL, Nxt(p), FALSE, {}, FALSE, "none")

CallTo(p, t) == MkInsn("call", t, Nxt(p), FALSE, {}, FALSE, "none")

\* Every shape: return, call, plain, direct jump, conditional branch,
\* unconditional indirect branch; branches to the entry or out of F.
RichShapes(p) ==
    {Ret, Plain(p)}
    \cup {CallTo(p, t) : t \in {1, OUT}}
    \cup {MkInsn("jmp", t, NULL, FALSE, {}, FALSE, rs) :
             t \in {1, OUT}, rs \in {"none", "garbage", "fix"}}
    \cup {MkInsn("other", t, Nxt(p), FALSE, {}, FALSE, rs) :
             t \in {1, OUT}, rs \in {"none", "garbage", "fix"}}
    \cup {MkInsn("jmp", NULL, NULL, TRUE, ic[1], ic[2], rs) :
             ic \in {<<{1}, TRUE>>, <<{Nxt(p)}, TRUE>>, <<{OUT}, TRUE>>,
                     <<{Nxt(p), OUT}, TRUE>>, <<{Nxt(p), OUT}, FALSE>>},
             rs \in {"none", "garbage"}}

MidShapes(p) == {Ret, Plain(p), CallTo(p, 1)}

LastShapes(p) == {Ret, Plain(p), MkInsn("jmp", 1, NULL, FALSE, {}, FALSE, "none")}

\* The instruction OUT of the stub G (function 2).
OutInsn == [Ret EXCEPT !.func = 2]

\* F with positions 1 and 2 of every shape.
Bodies ==
    {<<a, b>> \o mid \o <<z>> :
        a \in RichShapes(1), b \in RichShapes(2),
        mid \in {m \in [1..(NumF - 3) -> UNION {MidShapes(p) : p \in 3..(NumF - 1)}] :
                    \A k \in 1..(NumF - 3) : m[k] \in MidShapes(k + 2)},
        z \in LastShapes(NumF)}

\* F with positions 1 and 2 of every shape, the rest plain and a return
\* (for the functions can_stamp turns away before it looks at instructions).
PlainTailBodies ==
    {<<a, b>> \o [k \in 1..(NumF - 3) |-> Plain(k + 2)] \o <<Ret>> :
        a \in RichShapes(1), b \in RichShapes(2)}

\* The one unwind program of the control-flow specification.
Pgm0 ==
    [caf |-> 1, daf |-> -8, rr |-> 16, ptrsize |-> 8,
     cie_program |-> <<<<12, 7, 8>>>>, fde_program |-> <<>>, relocs |-> {}]

\* The programs execute() may be given: the normal F, F named _start,
\* F without an entry, and F of StubSize instructions (the others are G's).
Programs ==
    {[funcs |-> <<[name |-> "f", entry |-> 1], [name |-> "g", entry |-> OUT]>>,
      insns |-> body \o <<OutInsn>>] : body \in Bodies}
    \cup
    {[funcs |-> <<[name |-> "_start", entry |-> 1], [name |-> "g", entry |-> OUT]>>,
      insns |-> body \o <<OutInsn>>] : body \in PlainTailBodies}
    \cup
    {[funcs |-> <<[name |-> "f", entry |-> NULL], [name |-> "g", entry |-> OUT]>>,
      insns |-> body \o <<OutInsn>>] : body \in PlainTailBodies}
    \cup
    {[funcs |-> <<[name |-> "f", entry |-> 1], [name |-> "g", entry |-> OUT]>>,
      insns |-> [k \in 1..NumF |->
                    IF k <= StubSize THEN body[k] ELSE [body[k] EXCEPT !.func = 2]]
                \o <<OutInsn>>] : body \in PlainTailBodies}

\* The state execute() starts from, common to the specifications.
Start(fs, ins, ps, sv, bits) ==
    /\ funcs = fs
    /\ insns = ins
    /\ ir0 = ins
    /\ pgms = ps
    /\ eh_registry = 1..Len(ps)
    /\ all_eh_pgms = {}
    /\ m_stamp_value = sv
    /\ arch_bits = bits
    /\ m_instructions_added = 0
    /\ m_functions_transformed = 0
    /\ m_functions_not_transformed = 0
    /\ todo = sorted_funcs(fs)
    /\ phase = "execute"
    /\ cur = NULL
    /\ eh_pos = 0
    /\ outcome = [f \in 1..Len(fs) |-> "pending"]
    /\ stamp_log = <<>>
    /\ eh_before = [i \in 1..Len(ins) |-> ins[i].eh]
    /\ pc = NULL
    /\ parity = 0
    /\ success = <<>>
    /\ exit_code = <<>>

\* SS_MAX_DO_TRANSFORM is not in the environment.
EnvUnset == ss_max_do_transform = <<>>

\* No frame of the rewritten program is followed byte by byte.
NoFrame == ret_addr = <<>> /\ slot = <<>> /\ unwound = <<>>

\* The entry of F has the unwind program Pgm0.
Init ==
    \E p \in Programs :
        /\ Start(p.funcs, [p.insns EXCEPT ![1].eh = 1], <<Pgm0>>, Bytes(305419896, 4), 64)
        /\ EnvUnset /\ NoFrame

Next ==
    \/ ExecuteSkip
    \/ ExecuteStamp
    \/ EhUpdate
    \/ EhReturn
    \/ Finish
    \/ ExecEnter
    \/ ExecStep
    \/ ExecLeave

Spec == Init /\ [][Next]_vars

(***************************************************************************)
(* Unwind specification: two functions that are transformed (named so that *)
(* the sorted order is not the order of the pointers) and a stub; the      *)
(* instructions at EhSlots reference any of the first MaxPgms programs of   *)
(* EhPool, or none.                                                        *)
(***************************************************************************)
\* How many unwind programs the IR holds before the pass.
MaxPgms == 4

\* Unwind programs: Pgm0, a second object of the same content, and programs
\* that differ from Pgm0 in one field; the last already starts with the
\* compensating operation of a 64-bit pass.
EhPool ==
    <<Pgm0,
      Pgm0,
      [Pgm0 EXCEPT !.fde_program = <<<<14, 16>>>>],
      [Pgm0 EXCEPT !.relocs = {1}],
      [Pgm0 EXCEPT !.caf = 4],
      [Pgm0 EXCEPT !.fde_program = <<dwarf_instruction(Bytes(305419896, 4), 64)>>]>>

\* plain, plain, plain, return: the instructions first..first+3 of function f
EhBody(f, first) ==
    [k \in 1..4 |->
        IF k = 4 THEN [Ret EXCEPT !.func = f]
        ELSE [Plain(1) EXCEPT !.func = f, !.fallthrough = first + k]]

EhFuncs ==
    <<[name |-> "g", entry |-> 1], [name |-> "f", entry |-> 5],
      [name |-> "_start", entry |-> 9]>>

\* The instructions whose unwind program the initial state chooses.
EhSlots == {1, 4, 5, 7}

EhInsns(choice) ==
    LET base == EhBody(1, 1) \o EhBody(2, 5) \o <<[Ret EXCEPT !.func = 3, !.eh = 1]>>
    IN  [i \in 1..Len(base) |->
            IF i \in EhSlots THEN [base[i] EXCEPT !.eh = choice[i]] ELSE base[i]]

InitEh ==
    \E choice \in [EhSlots -> 0..MaxPgms], bits \in {32, 64} :
        /\ Start(EhFuncs, EhInsns(choice), SubSeq(EhPool, 1, MaxPgms),
                 Bytes(305419896, 4), bits)
        /\ EnvUnset /\ NoFrame

NextEh ==
    \/ ExecuteSkip
    \/ ExecuteStamp
    \/ EhUpdate
    \/ EhReturn
    \/ Finish

SpecEh == InitEh /\ [][NextEh]_vars

(***************************************************************************)
(* Cap specification: NumCapFuncs functions of four instructions, each     *)
(* either one can_stamp accepts or one with a conditional branch to another *)
(* function; SS_MAX_DO_TRANSFORM unset or one of CapEnvs; exceptions.       *)
(***************************************************************************)
\* How many functions the IR of the cap specification holds.
NumCapFuncs == 4

\* Names out of pointer order, one of them twice.
CapNames == <<"h", "f", "f", "g">>

CapFuncs ==
    [k \in 1..NumCapFuncs |->
        [name |-> CapNames[((k - 1) % Len(CapNames)) + 1], entry |-> 4 * (k - 1) + 1]]

\* The four instructions of function k: plain, plain, plain, return; when
\* the function is not to be eligible the second one is a conditional
\* branch to the entry of the next function.
CapBody(k, eligible) ==
    LET first == 4 * (k - 1) + 1
        body == EhBody(k, first)
    IN  IF eligible THEN [body EXCEPT ![1].eh = 1]
        ELSE [body EXCEPT ![2].target = 4 * (k % NumCapFuncs) + 1]

RECURSIVE CapInsns(_, _)
CapInsns(elig, k) ==
    IF k > NumCapFuncs THEN <<>> ELSE CapBody(k, elig[k]) \o CapInsns(elig, k + 1)

\* Values of SS_MAX_DO_TRANSFORM: unset, numbers, a string atoi reads as 0,
\* a negative number.
CapEnvs == {<<>>, <<"0">>, <<"1">>, <<"2">>, <<"1", "0">>, <<"x">>, <<"-", "1">>}

InitCap ==
    \E elig \in [1..NumCapFuncs -> BOOLEAN], env \in CapEnvs :
        /\ Start(CapFuncs, CapInsns(elig, 1), <<Pgm0>>, Bytes(305419896, 4), 64)
        /\ ss_max_do_transform = env
        /\ NoFrame

NextCap ==
    \/ ExecuteContinue
    \/ ExecuteSkip
    \/ ExecuteStamp
    \/ EhUpdate
    \/ EhReturn
    \/ Finish
    \/ ExecuteStepCatch

SpecCap == InitCap /\ [][NextCap]_vars

(***************************************************************************)
(* Stamp specification: the pass runs on the IR of the unwind specification *)
(* with a stamp value of StampValues; then a frame of a transformed        *)
(* function is followed byte by byte: its caller pushes a return address,   *)
(* the stamp instruction executes, the unwinder evaluates the first        *)
(* operation of an instruction's FDE program.                              *)
(***************************************************************************)
RECURSIVE xor_bits(_, _, _)
\* The exclusive or of the low n bits of a and b.
xor_bits(a, b, n) ==
    IF n = 0 THEN 0
    ELSE (((a % 2) + (b % 2)) % 2) + 2 * xor_bits(a \div 2, b \div 2, n - 1)

\* The exclusive or of two byte strings of one length.
XorBytes(x, y) == [k \in 1..Len(x) |-> xor_bits(x[k], y[k], 8)]

RECURSIVE StripZeros(_)
StripZeros(ds) == IF Len(ds) > 1 /\ Head(ds) = 0 THEN StripZeros(Tail(ds)) ELSE ds

\* hex << get_stamp(f): the hexadecimal digits of the unsigned int, most
\* significant first, without leading zeros.
HexDigits(stamp_value) ==
    StripZeros(<<stamp_value[4] \div 16, stamp_value[4] % 16,
                 stamp_value[3] \div 16, stamp_value[3] % 16,
                 stamp_value[2] \div 16, stamp_value[2] % 16,
                 stamp_value[1] \div 16, stamp_value[1] % 16>>)

\* The text stamp(f,i) hands to insertAssemblyBefore:
\* " xor dword [" << spreg << "], 0x" << hex << get_stamp(f)
stamp_assembly(stamp_value, bits) ==
    [mnemonic |-> "xor", size |-> "dword",
     spreg |-> IF bits = 64 THEN "rsp" ELSE "esp",
     imm |-> HexDigits(stamp_value)]

\* The assembler: a dword operand takes a 32-bit immediate, the value of the
\* hexadecimal digits, stored least significant byte first.
Assemble(assembly) ==
    LET pad == [k \in 1..(8 - Len(assembly.imm)) |-> 0] \o assembly.imm
    IN  [opsize |-> 4,
         imm |-> [k \in 1..4 |-> pad[10 - 2 * k] + 16 * pad[9 - 2 * k]]]

\* xor dword [sp], imm: the opsize bytes at the stack pointer, where the
\* return address begins, are XORed with the immediate.
ExecXor(mem, insn) ==
    [k \in 1..Len(mem) |->
        IF k <= insn.opsize THEN xor_bits(mem[k], insn.imm[k], 8) ELSE mem[k]]

RECURSIVE EvalDwarf(_, _, _, _)
\* The DWARF expression expr evaluated on stack (top last); mem is the
\* content of the return-address slot, which lies at CFA - byte_width.
\* DW_OP_lit0..lit31 are 48..79, DW_OP_minus 28, DW_OP_deref 6, DW_OP_addr 3,
\* DW_OP_xor 39.
EvalDwarf(expr, stack, mem, byte_width) ==
    IF expr = <<>> THEN stack[Len(stack)]
    ELSE LET op == Head(expr)
             n == Len(stack)
             bad == <<[tag |-> "bad", n |-> 0, b |-> <<>>]>>
         IN  IF op \in 48..79
             THEN EvalDwarf(Tail(expr),
                            Append(stack, [tag |-> "lit", n |-> op - 48, b |-> <<>>]),
                            mem, byte_width)
             ELSE IF op = 28 /\ n >= 2
             THEN EvalDwarf(Tail(expr),
                            Append(SubSeq(stack, 1, n - 2),
                                   [stack[n - 1] EXCEPT !.n = @ - stack[n].n]),
                            mem, byte_width)
             ELSE IF op = 6 /\ n >= 1
             THEN EvalDwarf(Tail(expr),
                            SubSeq(stack, 1, n - 1) \o
                              (IF stack[n].tag = "cfa" /\ stack[n].n = 0 - byte_width
                               THEN <<[tag |-> "bytes", n |-> 0, b |-> mem]>>
                               ELSE bad),
                            mem, byte_width)
             ELSE IF op = 3 /\ Len(expr) > byte_width
             THEN EvalDwarf(SubSeq(expr, byte_width + 2, Len(expr)),
                            Append(stack, [tag |-> "bytes", n |-> 0,
                                           b |-> SubSeq(expr, 2, byte_width + 1)]),
                            mem, byte_width)
             ELSE IF op = 39 /\ n >= 2
             THEN EvalDwarf(Tail(expr),
                            SubSeq(stack, 1, n - 2) \o
                              (IF stack[n].tag = "bytes" /\ stack[n - 1].tag = "bytes"
                               THEN <<[tag |-> "bytes", n |-> 0,
                                       b |-> XorBytes(stack[n - 1].b, stack[n].b)]>>
                               ELSE bad),
                            mem, byte_width)
             ELSE bad[1]

\* The unwinder on DW_CFA_val_expression (22) reg, length, expression: the
\* register reg of the caller is the value of the expression, evaluated
\* with the CFA on the stack.
Unwind(cfa_op, mem, byte_width) ==
    IF Len(cfa_op) >= 3 /\ cfa_op[1] = 22 /\ Len(cfa_op) = 3 + cfa_op[3]
    THEN [reg |-> cfa_op[2],
          val |-> EvalDwarf(SubSeq(cfa_op, 4, Len(cfa_op)),
                            <<[tag |-> "cfa", n |-> 0, b |-> <<>>]>>, mem, byte_width).b]
    ELSE [reg |-> NULL, val |-> <<>>]

\* Stamp values: 0, 1, 0x12345678, 0x80000000, 0xffffffff.
StampValues ==
    {<<0, 0, 0, 0>>, <<1, 0, 0, 0>>, Bytes(305419896, 4), <<0, 0, 0, 128>>,
     <<255, 255, 255, 255>>}

\* Return addresses of byte_width bytes, least significant byte first.
RetAddrs(byte_width) ==
    {SubSeq(lo \o hi, 1, byte_width) :
        lo \in {<<0, 16, 64, 0>>, <<120, 86, 52, 18>>, <<255, 255, 255, 255>>},
        hi \in {<<0, 0, 0, 0>>, <<255, 127, 0, 0>>}}

\* A caller calls a transformed function: the call pushes the return address.
FrameEnter ==
    /\ phase = "done" /\ ret_addr = <<>>
    /\ \E f \in 1..Len(funcs) : outcome[f] = "transformed"
    /\ \E ra \in RetAddrs(arch_bits \div 8) : ret_addr' = ra /\ slot' = ra
    /\ UNCHANGED <<funcs, insns, ir0, pgms, eh_registry, all_eh_pgms, m_stamp_value,
                   arch_bits, m_instructions_added, m_functions_transformed,
                   m_functions_not_transformed, todo, phase, cur, eh_pos, outcome,
                   stamp_log, eh_before, pc, parity>>
    /\ UNCHANGED <<ss_max_do_transform, success, exit_code, unwound>>

\* The frame executes a stamp instruction.
FrameXor ==
    /\ ret_addr # <<>> /\ unwound = <<>>
    /\ slot' = ExecXor(slot, Assemble(stamp_assembly(m_stamp_value, arch_bits)))
    /\ parity' = 1 - parity
    /\ UNCHANGED <<funcs, insns, ir0, pgms, eh_registry, all_eh_pgms, m_stamp_value,
                   arch_bits, m_instructions_added, m_functions_transformed,
                   m_functions_not_transformed, todo, phase, cur, eh_pos, outcome,
                   stamp_log, eh_before, pc>>
    /\ UNCHANGED <<ss_max_do_transform, success, exit_code, ret_addr, unwound>>

\* The unwinder walks the frame while it is stamped, at an instruction of a
\* transformed function that has an unwind program: it runs the first
\* operation of the FDE program.
FrameUnwind ==
    /\ ret_addr # <<>> /\ unwound = <<>> /\ parity = 1
    /\ \E i \in 1..Len(insns) :
          /\ outcome[insns[i].func] = "transformed"
          /\ insns[i].eh # NULL
          /\ pgms[insns[i].eh].fde_program # <<>>
          /\ unwound' = <<Unwind(pgms[insns[i].eh].fde_program[1], slot,
                                  arch_bits \div 8)>>
    /\ UNCHANGED <<funcs, insns, ir0, pgms, eh_registry, all_eh_pgms, m_stamp_value,
                   arch_bits, m_instructions_added, m_functions_transformed,
                   m_functions_not_transformed, todo, phase, cur, eh_pos, outcome,
                   stamp_log, eh_before, pc, parity>>
    /\ UNCHANGED <<ss_max_do_transform, success, exit_code, ret_addr, slot>>

InitXor ==
    \E sv \in StampValues, bits \in {32, 64} :
        /\ Start(EhFuncs, EhInsns([i \in EhSlots |-> IF i = 1 THEN 1 ELSE NULL]),
                 <<Pgm0>>, sv, bits)
        /\ EnvUnset /\ NoFrame

NextXor ==
    \/ ExecuteSkip
    \/ ExecuteStamp
    \/ EhUpdate
    \/ EhReturn
    \/ Finish
    \/ FrameEnter
    \/ FrameXor
    \/ FrameUnwind

SpecXor == InitXor /\ [][NextXor]_vars

(***************************************************************************)
(* Properties                                                              *)
(***************************************************************************)
Funcs == 1..Len(funcs)

\* The instructions a function had when execute() began.
Original(f) == getInstructions(ir0, f)

\* How many times stamp(f,i) was called on the Instruction_t i.
StampsAt(f, i) ==
    Cardinality({k \in 1..Len(stamp_log) : stamp_log[k][1] = f /\ stamp_log[k][2] = i})

\* The stamp instructions now in function f.
StampsIn(f) == {i \in getInstructions(insns, f) : IsStamp(insns[i])}

RECURSIVE Loc(_)
\* Where the content of Instruction_t i is now: an insertion before i moves
\* the content to a new instruction the inserted xor falls through to.
Loc(i) == IF IsStamp(insns[i]) THEN Loc(insns[i].fallthrough) ELSE i

\* The function was skipped and left untouched.
Untouched(f) ==
    /\ outcome[f] = "skipped"
    /\ StampsIn(f) = {}
    /\ getInstructions(insns, f) = Original(f)
    /\ \A k \in 1..Len(stamp_log) : stamp_log[k][1] # f

\* C1: in the rewritten code of a transformed function, whenever a frame that
\* entered at the entry is at a return or at a branch that leaves the
\* function, it has executed an even number of stamp instructions.
C1_StampBalance == (pc # NULL /\ Leaves(insns, pc)) => parity = 0

\* C2: in a transformed function stamp(f,i) is called exactly once on the
\* entry instruction and at most once on any instruction.
C2_EntryStampedOnce ==
    \A f \in Funcs :
        outcome[f] = "transformed" =>
            /\ StampsAt(f, funcs[f].entry) = 1
            /\ \A i \in getInstructions(insns, f) : StampsAt(f, i) <= 1

\* The walk of stamp(f) stamps the instruction: a return, or, when not
\* classified as a call, a direct branch out of f or an unconditional
\* indirect branch at the entry.
EntryWalkStamped(f) ==
    LET e == ir0[funcs[f].entry]
    IN  \/ isReturn(e)
        \/ /\ ~(isCall(e) \/ findRelocation(e, fix_call_fallthrough_string) # NULL)
           /\ \/ (e.target # NULL /\ ir0[e.target].func # f)
              \/ (isUnconditionalBranch(e) /\ e.hasIbt)

\* C2 as amended: in a transformed function the entry is stamped once by the
\* final step of stamp(f) and once more, twice in all, when the walk stamps
\* it too; every other instruction is stamped at most once.
C2_EntryStampedOnceOrTwice ==
    \A f \in Funcs :
        outcome[f] = "transformed" =>
            /\ StampsAt(f, funcs[f].entry) = (IF EntryWalkStamped(f) THEN 2 ELSE 1)
            /\ \A i \in getInstructions(insns, f) \ {funcs[f].entry} : StampsAt(f, i) <= 1

\* C2's case: a transformed function whose entry is a return that another
\* instruction targets; the entry was stamped twice.
C2_Witness ==
    \E f \in Funcs :
        /\ outcome[f] = "transformed"
        /\ isReturn(ir0[funcs[f].entry])
        /\ StampsAt(f, funcs[f].entry) = 2
        /\ \E i \in Original(f) : ir0[i].target = funcs[f].entry

\* C3: a function with no entry, or named _start, or of three or fewer
\* instructions is skipped whatever its instructions are: no stamp is
\* inserted and it is counted as not transformed; a function of exactly four
\* instructions, with an entry, not named _start, all of whose instructions
\* pass can_stamp's loop is transformed.
C3_StubsSkipped ==
    /\ m_functions_not_transformed = Cardinality({f \in Funcs : outcome[f] = "skipped"})
    /\ m_functions_transformed = Cardinality({f \in Funcs : outcome[f] = "transformed"})
    /\ \A f \in Funcs :
          outcome[f] # "pending" =>
             /\ (\/ funcs[f].entry = NULL
                 \/ funcs[f].name = "_start"
                 \/ Cardinality(Original(f)) <= 3) => Untouched(f)
             /\ (/\ funcs[f].entry # NULL
                 /\ funcs[f].name # "_start"
                 /\ Cardinality(Original(f)) = 4
                 /\ \A i \in Original(f) : InsnVerdict(ir0, f, i) = "ok")
                => (outcome[f] = "transformed" /\ StampsIn(f) # {})

\* C3's case: the pass is over, a function named _start of more than three
\* instructions was skipped, and so was a stub of three or fewer.
C3_Witness ==
    /\ phase = "done"
    /\ \E f \in Funcs : /\ funcs[f].name = "_start" /\ funcs[f].entry # NULL
                        /\ Cardinality(Original(f)) > 3 /\ Untouched(f)
    /\ \E f \in Funcs : /\ funcs[f].name # "_start" /\ funcs[f].entry # NULL
                        /\ Cardinality(Original(f)) <= 3 /\ Untouched(f)

\* A conditional branch that may leave f: neither return nor call nor fixed
\* call, direct target in another function, fallthrough present.
CondExit(f, i) ==
    /\ ~isReturn(ir0[i]) /\ ~CallLike(ir0[i])
    /\ ir0[i].target # NULL /\ ir0[ir0[i].target].func # f
    /\ ir0[i].fallthrough # NULL

\* C4: a function with a conditional branch that may leave it is skipped
\* untouched, the instructions-added counter with it, and the walk's
\* assertion on a leaving branch never meets a fallthrough.
C4_CondExitSkipped ==
    \A f \in Funcs :
        /\ (outcome[f] # "pending" /\ \E i \in Original(f) : CondExit(f, i))
              => (Untouched(f) /\ m_instructions_added = Cardinality(UNION {StampsIn(g) : g \in Funcs \ {f}}))
        /\ (outcome[f] = "pending" /\ can_stamp(funcs, insns, f))
              => \A i \in getInstructions(insns, f) : ~WalkAsserts(insns, f, i)

\* An unconditional indirect branch with a target inside f and one outside.
AmbiguousIB(f, i) ==
    /\ isUnconditionalBranch(ir0[i]) /\ ir0[i].hasIbt
    /\ \E t \in ir0[i].ibt : ir0[t].func = f
    /\ \E t \in ir0[i].ibt : ir0[t].func # f

\* C5: a function with an unconditional indirect branch that has targets
\* inside and outside it is skipped untouched, complete target set or not,
\* and can_stamp's assert(0) is not reached on a non-empty target set.
C5_AmbiguousIBRejected ==
    \A f \in Funcs :
        /\ (outcome[f] # "pending" /\ \E i \in Original(f) : AmbiguousIB(f, i))
              => Untouched(f)
        /\ \A i \in Original(f) :
              ir0[i].ibt # {} => InsnVerdict(ir0, f, i) # "assert_0"

\* A plain entry, exactly two returns, one call inside f, nothing that
\* leaves f, at least four instructions.
ScenarioA(f) ==
    /\ funcs[f].entry # NULL
    /\ LET e == ir0[funcs[f].entry]
       IN  e.kind = "other" /\ e.target = NULL /\ ~e.hasIbt
    /\ Cardinality(Original(f)) >= 4
    /\ Cardinality({i \in Original(f) : isReturn(ir0[i])}) = 2
    /\ Cardinality({i \in Original(f) : isCall(ir0[i])}) = 1
    /\ \A i \in Original(f) :
          /\ \A t \in Dests(ir0[i]) : ir0[t].func = f
          /\ ir0[i].kind \in {"other", "ret", "call"}
          /\ ~isCall(ir0[i]) => ir0[i].target = NULL

\* C6: in a transformed function the walk calls stamp once on every return,
\* the return then has exactly one stamp falling through to it, and the
\* instructions-added counter is the number of stamp instructions inserted;
\* scenario A gets exactly 3 of them and the counter is 3.
C6_ReturnsStamped ==
    /\ m_instructions_added = Cardinality(UNION {StampsIn(f) : f \in Funcs})
    /\ \A f \in Funcs :
          outcome[f] = "transformed" =>
             /\ \A r \in Original(f) :
                   isReturn(ir0[r]) =>
                      /\ Cardinality({k \in 1..Len(stamp_log) :
                                         stamp_log[k] = <<f, r, "ret">>}) = 1
                      /\ isReturn(insns[Loc(r)])
                      /\ Cardinality({x \in StampsIn(f) :
                                         insns[x].fallthrough = Loc(r)}) = 1
             /\ ScenarioA(f) =>
                   (Cardinality(StampsIn(f)) = 3 /\ m_instructions_added = 3)

\* C6's case: scenario A was transformed and the pass is over.
C6_Witness ==
    /\ phase = "done"
    /\ \E f \in Funcs : outcome[f] = "transformed" /\ ScenarioA(f)
                        /\ m_instructions_added = 3

\* What can_stamp and the walk take for a call: isCall() || reloc != NULL,
\* reached when the instruction is not a return.
ClassifiedAsCall(insn) ==
    ~isReturn(insn)
    /\ (isCall(insn) \/ findRelocation(insn, fix_call_fallthrough_string) # NULL)

\* C7: once a function is processed, each of its instructions that is a call
\* or carries a fix_call_fallthrough relocation was classified as a call, did
\* not disqualify the function and got no stamp from the walk; an instruction
\* that is neither was not classified as a call.
C7_FixedCallsAreCalls ==
    \A f \in Funcs :
        outcome[f] # "pending" =>
            \A i \in Original(f) :
                ~isReturn(ir0[i]) =>
                    /\ CallLike(ir0[i]) <=> ClassifiedAsCall(ir0[i])
                    /\ CallLike(ir0[i]) =>
                          /\ InsnVerdict(ir0, f, i) = "ok"
                          /\ StampsAt(f, i) = (IF outcome[f] = "transformed"
                                                  /\ i = funcs[f].entry THEN 1 ELSE 0)

\* C8: in a transformed function every instruction that targeted the entry
\* before the pass now targets the entry's fallthrough if it is not a call,
\* and still the entry if it is a call; the instruction is looked at where
\* its content now is.
C8_EntryRefsPatched ==
    \A f \in Funcs :
        outcome[f] = "transformed" =>
            \A i \in Original(f) :
                ir0[i].target = funcs[f].entry =>
                    IF isCall(ir0[i])
                    THEN insns[Loc(i)].target = funcs[f].entry
                    ELSE /\ insns[Loc(i)].target = insns[funcs[f].entry].fallthrough
                         /\ insns[Loc(i)].target # funcs[f].entry

\* eh_update's loop has visited instruction i.
EhVisited(i) ==
    /\ outcome[insns[i].func] = "transformed"
    /\ ~(phase = "eh" /\ cur = insns[i].func /\ i > eh_pos)

\* C9: every instruction eh_update has visited that had an unwind program
\* references a program equal to the old one in caf, daf, return register,
\* pointer size, CIE list and relocations, whose FDE list is the old FDE list
\* with the compensating operation prepended once; one that had none has
\* none; the old program objects are unchanged.
C9_OneOpPrepended ==
    /\ \A k \in 1..MaxPgms : pgms[k] = EhPool[k]
    /\ \A i \in 1..Len(insns) :
          EhVisited(i) =>
             IF eh_before[i] = NULL THEN insns[i].eh = NULL
             ELSE /\ insns[i].eh # NULL
                  /\ LET old == pgms[eh_before[i]]
                         new == pgms[insns[i].eh]
                     IN  /\ new.caf = old.caf /\ new.daf = old.daf
                         /\ new.rr = old.rr /\ new.ptrsize = old.ptrsize
                         /\ new.cie_program = old.cie_program
                         /\ new.relocs = old.relocs
                         /\ new.fde_program =
                               <<dwarf_instruction(m_stamp_value, arch_bits)>>
                                  \o old.fde_program

\* C9's case: the pass is over; two instructions of transformed functions
\* shared one old program object with a non-empty FDE list, and another
\* instruction of a transformed function had no program.
C9_Witness ==
    /\ phase = "done"
    /\ \E i, j \in 1..Len(insns) :
          /\ i # j /\ EhVisited(i) /\ EhVisited(j)
          /\ eh_before[i] # NULL /\ eh_before[i] = eh_before[j]
          /\ pgms[eh_before[i]].fde_program # <<>>
          /\ insns[i].eh # eh_before[i]
    /\ \E i \in 1..Len(insns) : EhVisited(i) /\ eh_before[i] = NULL

\* The program eh_update derives for an instruction from its old program.
Derived(i) == NewPlaceHolder(pgms[eh_before[i]], m_stamp_value, arch_bits)

\* C10: at every point of the pass no two cache entries hold distinct
\* program objects of equal content, no key is stored twice, every key
\* equals the content of the program it maps to, and two visited
\* instructions whose derived programs are content-equal reference the
\* same program object.
C10_CacheShares ==
    /\ \A e1, e2 \in all_eh_pgms :
          e1 # e2 => /\ e1.pgm # e2.pgm
                     /\ e1.key # e2.key
                     /\ EhProgramPlaceHolder_t(pgms[e1.pgm])
                           # EhProgramPlaceHolder_t(pgms[e2.pgm])
    /\ \A e \in all_eh_pgms : e.key = EhProgramPlaceHolder_t(pgms[e.pgm])
    /\ \A i, j \in 1..Len(insns) :
          (/\ EhVisited(i) /\ EhVisited(j)
           /\ eh_before[i] # NULL /\ eh_before[j] # NULL
           /\ Derived(i) = Derived(j))
          => insns[i].eh = insns[j].eh

\* C10's case: instructions of two different transformed functions whose old
\* programs were distinct objects of equal content now share one object,
\* while the cache holds more than one program.
C10_Witness ==
    /\ Cardinality(all_eh_pgms) > 1
    /\ \E i, j \in 1..Len(insns) :
          /\ EhVisited(i) /\ EhVisited(j)
          /\ insns[i].func # insns[j].func
          /\ eh_before[i] # NULL /\ eh_before[j] # NULL
          /\ eh_before[i] # eh_before[j]
          /\ insns[i].eh = insns[j].eh

\* The instructions of the input that had an unwind program.
HadPgm == {i \in 1..Len(ir0) : ir0[i].eh # NULL}

\* Where the instruction i of the input is after the pass: the Instruction_t
\* itself and, when a stamp was inserted before it, the copy of its content.
After(i) == {i, Loc(i)}

TransformedInsn(i) == outcome[ir0[i].func] = "transformed"

\* C11 (as stated): after execute(), any two instructions whose unwind
\* programs were content-equal before it reference the identical program
\* object, whichever functions they belong to, transformed or skipped.
C11_SharingAnyFunction ==
    phase = "done" =>
        \A i \in HadPgm, j \in HadPgm :
            pgms[ir0[i].eh] = pgms[ir0[j].eh] =>
                \A a \in After(i), b \in After(j) : insns[a].eh = insns[b].eh

\* C11 (amended): after execute(), any two instructions of transformed
\* functions whose unwind programs were content-equal before it reference
\* the identical program object; an instruction of a function that was not
\* transformed references the object it referenced before.
C11_SharingTransformed ==
    phase = "done" =>
        /\ \A i \in HadPgm, j \in HadPgm :
              (TransformedInsn(i) /\ TransformedInsn(j)
                 /\ pgms[ir0[i].eh] = pgms[ir0[j].eh]) =>
                  \A a \in After(i), b \in After(j) : insns[a].eh = insns[b].eh
        /\ \A i \in HadPgm : ~TransformedInsn(i) => insns[i].eh = ir0[i].eh

\* Two instructions of different transformed functions referenced distinct
\* objects of equal content and now share one; a skipped function kept its own.
C11_Witness ==
    /\ phase = "done"
    /\ \E i \in HadPgm, j \in HadPgm :
          /\ TransformedInsn(i) /\ TransformedInsn(j)
          /\ ir0[i].func # ir0[j].func
          /\ ir0[i].eh # ir0[j].eh
          /\ pgms[ir0[i].eh] = pgms[ir0[j].eh]
          /\ insns[i].eh = insns[j].eh
          /\ \A k \in 1..Len(ir0) : ir0[k].eh # insns[i].eh
    /\ \E k \in HadPgm : ~TransformedInsn(k) /\ insns[k].eh = ir0[k].eh

\* C12: after cleanup_eh_pgms() at the end of execute(), the registry of
\* unwind programs is exactly the set of programs the instructions
\* reference: each registered program is referenced by some instruction
\* (those created by stamp insertion included) and each referenced program
\* is registered.
C12_RegistryExact ==
    phase = "done" =>
        /\ \A p \in eh_registry : \E i \in 1..Len(insns) : insns[i].eh = p
        /\ \A i \in 1..Len(insns) : insns[i].eh # NULL => insns[i].eh \in eh_registry

\* The pass left a program of the input without a reference and it was
\* dropped; an instruction created by a stamp insertion references a
\* program the pass made, and it is registered.
C12_Witness ==
    /\ phase = "done"
    /\ \E p \in 1..Len(pgms) : p \notin eh_registry
    /\ \E i \in (Len(ir0) + 1)..Len(insns) :
          /\ insns[i].eh # NULL
          /\ insns[i].eh \in eh_registry
          /\ \A j \in 1..Len(ir0) : ir0[j].eh # insns[i].eh

\* The functions can_stamp accepts, and those the pass transformed.
Eligible == {f \in Funcs : can_stamp(funcs, ir0, f)}

Transformed == {f \in Funcs : outcome[f] = "transformed"}

\* The first n eligible functions in the order of sorted_funcs.
FirstEligible(n) ==
    {f \in Eligible : Cardinality({g \in Eligible : nameSorter(funcs, g, f)}) < n}

\* SS_MAX_DO_TRANSFORM is set to a number N >= 0.
CapIsNumber ==
    /\ ss_max_do_transform # <<>>
    /\ \A k \in 1..Len(ss_max_do_transform) : isdigit(ss_max_do_transform[k])

\* C13: with SS_MAX_DO_TRANSFORM set to N >= 0, execute() transforms at most
\* N functions, exactly the first min(N, number of eligible functions)
\* eligible ones in name-sorted order; an ineligible function met before the
\* cap is reached is counted as skipped and does not consume the cap.
C13_CapLimits ==
    (phase = "done" /\ CapIsNumber) =>
        LET N == atoi(ss_max_do_transform)
            n == Min({N, Cardinality(Eligible)})
        IN  /\ Cardinality(Transformed) <= N
            /\ Transformed = FirstEligible(n)
            /\ m_functions_transformed = Cardinality(Transformed)
            /\ \A f \in Funcs \ Eligible :
                  (\E g \in FirstEligible(n) : nameSorter(funcs, f, g)) =>
                      outcome[f] = "skipped"

\* C15: execute() returns true exactly when it transformed at least one
\* function; executeStep() returns 0 exactly when execute() returned true
\* and 2 otherwise, an exception leaving execute() included.
C15_ResultCodes ==
    /\ success # <<>> => (success[1] <=> Transformed # {})
    /\ exit_code # <<>> =>
          exit_code[1] = (IF success # <<>> /\ success[1] THEN 0 ELSE 2)
    /\ phase \in {"done", "thrown"} => exit_code # <<>>
    /\ phase = "done" => success # <<>>

\* execute() met functions, transformed none of them and returned false;
\* executeStep() returned 2.
C15_Witness ==
    /\ phase = "done"
    /\ success = <<FALSE>>
    /\ exit_code = <<2>>
    /\ m_functions_not_transformed > 1
    /\ Transformed = {}

\* C14: for every stamp value and every return address of the pointer
\* width, the unwind operation evaluated on the slot the stamp instruction
\* has XORed gives the original return address, in the return-address
\* register of the width (16 or 8): the operand of the unwind operation is
\* the mask the instruction applies; and the instruction executed twice
\* leaves the slot as it was.
C14_XorRoundTrip ==
    /\ unwound # <<>> =>
          /\ unwound[1].val = ret_addr
          /\ unwound[1].reg = (IF arch_bits = 64 THEN 16 ELSE 8)
    /\ (ret_addr # <<>> /\ parity = 0) => slot = ret_addr
    /\ (ret_addr # <<>> /\ parity = 1) =>
          slot = XorBytes(ret_addr, SubSeq(m_stamp_value \o <<0, 0, 0, 0>>, 1, Len(ret_addr)))

\* A 64-bit frame whose return address has bits above the low 32, stamped
\* with a value whose top bit is set, was unwound.
C14_Witness ==
    /\ unwound # <<>>
    /\ arch_bits = 64
    /\ m_stamp_value[4] >= 128
    /\ ret_addr[6] # 0
    /\ slot # ret_addr
    /\ unwound[1].val = ret_addr

\* C16: findRelocation(insn, type) returns a relocation of insn of the type
\* when insn has one and NULL when it has none; it never reads the element
\* past the end of the relocation set.
C16_FindRelocation ==
    \A i \in 1..Len(ir0) :
        LET reloc == findRelocation(ir0[i], fix_call_fallthrough_string)
        IN  IF fix_call_fallthrough_string \in ir0[i].relocs
            THEN reloc # NULL /\ reloc # GARBAGE
            ELSE reloc = NULL

\* C17: in a transformed function, whenever a frame that began at the entry
\* reaches a call instruction of the function, it has executed the stamp
\* an odd number of times (the state the compensating unwind operation
\* assumes), whatever the kind of the entry.
C17_CallSitesStamped == (pc # NULL /\ isCall(insns[pc])) => parity = 1

====
